---------------------------- MODULE Spec2Model ----------------------------
(***************************************************************************)
(* Autoscaling decision engine (examples/scaling/ai_scaling_engine.py) and *)
(* HPA reconciler (examples/scaling/k8s_hpa_manager.py).                   *)
(*                                                                         *)
(* Python values are dynamically typed, so every value that can come out   *)
(* of the reasoning backend's JSON is modelled as a tagged pair:           *)
(*   <<"none">>, <<"int", n>>, <<"float", c>> (c in hundredths),           *)
(*   <<"str", s>>.  Utilisation percentages are whole percents.            *)
(***************************************************************************)
EXTENDS Integers, Sequences, FiniteSets, TLC

VARIABLES
    client,             \* AIScalingEngine.client is set (a reasoning backend is configured)
    hpa_config,         \* the caller's HPAConfiguration instance
    dry_run,            \* K8sHPAManager.dry_run
    applied_changes,    \* K8sHPAManager.applied_changes, the audit list
    op,                 \* the operation that ran last
    current_metrics,    \* the snapshot passed to the last analyze_metrics call
    historical_metrics, \* the history passed to the last analyze_metrics call
    response,           \* what the backend did in the last analyze_metrics call
    backend_calls,      \* outbound backend calls made by the last analyze_metrics call
    decision,           \* the ScalingDecision the last call worked with
    raised,             \* the exception the last call ended with, or "none"
    original,           \* the config as it was when the last reconcile call started
    result,             \* the dictionary the last reconcile call returned
    cluster_applies,    \* what each cluster-applier invocation of the last reconcile call returned
    metrics_history,    \* the (timestamp, metrics) list passed to the schedule generator
    min_pods,           \* the min_pods argument of generate_schedule
    max_pods,           \* the max_pods argument of generate_schedule
    patterns,           \* the dictionary analyze_patterns returned
    schedule,           \* the ScalingSchedule generate_schedule returned, or the one
                        \* to_cron_jobs was last called on
    schedules,          \* the dictionary generate_weekly_schedule returned
    cron_jobs,          \* the list to_cron_jobs returned
    threads             \* the _apply_decision_to_hpa calls in flight on hpa_config, one per thread

vars == <<client, hpa_config, dry_run, applied_changes, op, current_metrics,
          historical_metrics, response, backend_calls, decision, raised,
          original, result, cluster_applies, metrics_history, min_pods,
          max_pods, patterns, schedule, schedules, cron_jobs, threads>>

engineVars == <<current_metrics, historical_metrics, response, backend_calls>>
managerVars == <<hpa_config, dry_run, applied_changes, original, result, cluster_applies>>
scheduleVars == <<metrics_history, min_pods, max_pods, patterns, schedule, schedules,
                  cron_jobs>>

-----------------------------------------------------------------------------
(* Bounds of the model *)

MaxPods == 9        \* snapshots carry 0 .. MaxPods pods (and LargePodCounts)
MaxHist == 2        \* histories hold at most MaxHist points
MaxReplicas == 3    \* constructor arguments are drawn from 0 .. MaxReplicas
MaxAudit == 1       \* reconcile calls made on one manager, any decisions
MaxCalls == 2       \* reconcile calls made on one manager, rule-based decisions
MaxSamples == 3     \* metrics_history holds at most MaxSamples samples

-----------------------------------------------------------------------------
(* Python values *)

None == <<"none">>
IntV(n) == <<"int", n>>
FloatV(c) == <<"float", c>>
StrV(s) == <<"str", s>>
Missing == <<"missing">>       \* a key the JSON object does not hold

IsNumber(v) == v[1] \in {"int", "float"}

\* Python truthiness, as in `if decision.recommended_pod_count:`
Truthy(v) ==
    CASE v[1] = "none" -> FALSE
      [] v[1] = "int" -> v[2] # 0
      [] v[1] = "float" -> v[2] # 0
      [] v[1] = "str" -> v[2] # ""
      [] OTHER -> TRUE

Max(a, b) == IF a >= b THEN a ELSE b
Min(a, b) == IF a <= b THEN a ELSE b

\* int(x) of the rational n/d, d > 0: truncation toward zero
TruncDiv(n, d) == IF n >= 0 THEN n \div d ELSE -((-n) \div d)

RECURSIVE FloorPow2(_)
\* the largest power of two that is <= n, n >= 1
FloorPow2(n) == IF n < 2 THEN 1 ELSE 2 * FloorPow2(n \div 2)

\* int(p * 1.5): 1.5 is a binary fraction, the double product is exact
IntMul15(p) == TruncDiv(3 * p, 2)

\* int(p * 0.5): exact as well
IntMul05(p) == TruncDiv(p, 2)

\* int(p * 0.7), p >= 0.  The double nearest 0.7 is 0.7 - 0.4 * 2^-53, so the
\* product of a multiple of ten 10k is 7k - 4k * 2^-53; it rounds to the double
\* below 7k exactly when 4k exceeds the half-ulp scale 2^floor(log2(7k)), and is
\* then truncated to 7k - 1 (90 * 0.7 = 62.99999999999999).  Any other product
\* is at least 0.1 away from an integer and truncates as the real one does.
IntMul07(p) ==
    IF p > 0 /\ p % 10 = 0 /\ 4 * (p \div 10) > FloorPow2(7 * (p \div 10))
    THEN (7 * p) \div 10 - 1
    ELSE (7 * p) \div 10

-----------------------------------------------------------------------------
(* ScalingMetrics and ScalingDecision *)

ScalingMetrics(cpu, mem, rps, pods) ==
    [cpu_utilization |-> cpu, memory_utilization |-> mem,
     request_rate |-> rps, current_pod_count |-> pods]

ScalingDecision(action, pods, memInc, cpuInc, confidence, reasoning, urgency, cost) ==
    [action |-> action,
     recommended_pod_count |-> pods,
     recommended_memory_increase |-> memInc,
     recommended_cpu_increase |-> cpuInc,
     confidence |-> confidence,
     reasoning |-> reasoning,
     urgency |-> urgency,
     estimated_cost_impact |-> cost]

\* recommended_pod_count of the horizontal scale-up rule
RecommendedScaleUpPods(pods) == IntMul15(pods)

\* recommended_pod_count of the horizontal scale-down rule
RecommendedScaleDownPods(pods) == Max(2, IntMul07(pods))

\* line 184: the scale-up conditions
ScaleUpCondition(metrics) ==
    metrics.cpu_utilization > 80 \/ metrics.memory_utilization > 85

\* a mutant of the rule order: a high CPU keeps the decision horizontal
VerticalConditionUnlessCpu(metrics) ==
    metrics.memory_utilization > 90 /\ metrics.cpu_utilization <= 80

\* line 185: the memory rule inside the scale-up branch
VerticalCondition(metrics) == metrics.memory_utilization > 90

\* a mutant of the scale-down guard: two pods are enough to scale down
ScaleDownConditionFromTwo(metrics) ==
    /\ metrics.cpu_utilization < 20
    /\ metrics.memory_utilization < 30
    /\ metrics.current_pod_count >= 2

\* line 203: the scale-down conditions
ScaleDownCondition(metrics) ==
    /\ metrics.cpu_utilization < 20
    /\ metrics.memory_utilization < 30
    /\ metrics.current_pod_count > 2

\* AIScalingEngine._rule_based_decision
RuleBasedDecision(metrics) ==
    IF ScaleUpCondition(metrics)
    THEN IF VerticalCondition(metrics)
         THEN ScalingDecision(StrV("scale_up_vertical"), None, StrV("50%"), None,
                              FloatV(85),
                              StrV("Memory utilization >90%, vertical scaling recommended"),
                              StrV("high"), None)
         ELSE ScalingDecision(StrV("scale_up_horizontal"),
                              IntV(RecommendedScaleUpPods(metrics.current_pod_count)),
                              None, None, FloatV(80),
                              StrV("High CPU/memory utilization detected"),
                              StrV("high"), None)
    ELSE IF ScaleDownCondition(metrics)
    THEN ScalingDecision(StrV("scale_down_horizontal"),
                         IntV(RecommendedScaleDownPods(metrics.current_pod_count)),
                         None, None, FloatV(75),
                         StrV("Low resource utilization, system over-provisioned"),
                         StrV("low"), None)
    ELSE ScalingDecision(StrV("maintain"), IntV(metrics.current_pod_count), None, None,
                         FloatV(90), StrV("All metrics within acceptable ranges"),
                         StrV("normal"), None)

-----------------------------------------------------------------------------
(* The AI-backed strategy *)

\* historical_metrics: Optional[List[ScalingMetrics]]
NoHistory == [given |-> FALSE, points |-> <<>>]
History(points) == [given |-> TRUE, points |-> points]

RECURSIVE SumSeq(_)
SumSeq(values) ==
    IF values = <<>> THEN 0 ELSE values[1] + SumSeq(Tail(values))

\* values[-3:]
LastThree(values) ==
    IF Len(values) <= 3 THEN values
    ELSE SubSeq(values, Len(values) - 2, Len(values))

\* AIScalingEngine._calculate_trend; "ZeroDivisionError" stands for the raise
\* of line 356.  diff_percent > 10 is decided on the exact quotient.
CalculateTrend(values) ==
    IF Len(values) < 2 THEN "insufficient data"
    ELSE LET n3 == Min(3, Len(LastThree(values)))
             s3 == SumSeq(LastThree(values))
             s == SumSeq(values)
             l == Len(values)
             num == s3 * l - s * n3      \* (recent_avg - overall_avg) * n3 * l
             den == s * n3               \* overall_avg * n3 * l
         IN IF s = 0 THEN "ZeroDivisionError"
            ELSE IF (den > 0 /\ 10 * num > den) \/ (den < 0 /\ 10 * num < den)
                 THEN "increasing"
            ELSE IF (den > 0 /\ 10 * num < -den) \/ (den < 0 /\ 10 * num > -den)
                 THEN "decreasing"
            ELSE "stable"

MapSeq(points, field) == [i \in 1..Len(points) |-> points[i][field]]

\* AIScalingEngine._prepare_ai_context: the three trends, cpu first, or the
\* exception the first failing trend raises
PrepareAiContext(history) ==
    IF ~history.given \/ Len(history.points) = 0
    THEN [raised |-> "none", trends |-> <<>>]
    ELSE LET trends == <<CalculateTrend(MapSeq(history.points, "cpu_utilization")),
                         CalculateTrend(MapSeq(history.points, "memory_utilization")),
                         CalculateTrend(MapSeq(history.points, "request_rate"))>>
         IN IF \E i \in 1..3 : trends[i] = "ZeroDivisionError"
            THEN [raised |-> "ZeroDivisionError", trends |-> <<>>]
            ELSE [raised |-> "none", trends |-> trends]

\* What the backend call of lines 271-285 can come to.  "api_error" and
\* "timeout" are exceptions of messages.create, "not_json" is a text json.loads
\* rejects, "json_non_object" is valid JSON that is no object (its .get fails),
\* "json_object" is a parsed object whose absent keys are Missing.
NotCalled == [kind |-> "not_called"]
FailedResponses ==
    {[kind |-> k] : k \in {"api_error", "timeout", "not_json", "json_non_object"}}
JsonObject(fields) == [kind |-> "json_object", fields |-> fields]

\* dict.get(key, default)
Get(fields, key, default) ==
    IF fields[key] = Missing THEN default ELSE fields[key]

NoDecision == [absent |-> TRUE]

\* a mutant of the fallback: a failed backend call keeps the current pod count
FallbackDecisionMaintain(metrics) ==
    ScalingDecision(StrV("maintain"), IntV(metrics.current_pod_count), None, None,
                    FloatV(90), StrV("All metrics within acceptable ranges"),
                    StrV("normal"), None)

\* lines 298-301: the except branch
FallbackDecision(metrics) == RuleBasedDecision(metrics)

\* AIScalingEngine._ai_based_decision
AiBasedDecision(metrics, history, resp) ==
    LET ctx == PrepareAiContext(history)
    IN IF ctx.raised # "none"
       THEN [raised |-> ctx.raised, decision |-> NoDecision,
             backend_calls |-> 0, response |-> NotCalled]
       ELSE IF resp.kind # "json_object"
       THEN [raised |-> "none", decision |-> FallbackDecision(metrics),
             backend_calls |-> 1, response |-> resp]
       ELSE [raised |-> "none",
             decision |->
                 ScalingDecision(Get(resp.fields, "action", StrV("maintain")),
                                 Get(resp.fields, "recommended_pod_count", None),
                                 Get(resp.fields, "recommended_memory_increase", None),
                                 Get(resp.fields, "recommended_cpu_increase", None),
                                 Get(resp.fields, "confidence", FloatV(0)),
                                 Get(resp.fields, "reasoning", StrV("")),
                                 Get(resp.fields, "urgency", StrV("normal")),
                                 Get(resp.fields, "estimated_cost_impact", None)),
             backend_calls |-> 1, response |-> resp]

\* lines 166-168: the confidence bucket; comparing a str or None with a float
\* raises TypeError
ConfidenceLevel(confidence) ==
    IF ~IsNumber(confidence) THEN "TypeError"
    ELSE IF confidence[2] > 80 THEN "high"
    ELSE IF confidence[2] > 50 THEN "medium"
    ELSE "low"

\* AIScalingEngine.analyze_metrics
AnalyzeMetricsOutcome(hasClient, metrics, history, resp) ==
    LET got == IF ~hasClient
               THEN [raised |-> "none", decision |-> RuleBasedDecision(metrics),
                     backend_calls |-> 0, response |-> NotCalled]
               ELSE AiBasedDecision(metrics, history, resp)
    IN IF got.raised # "none" THEN got
       ELSE IF ConfidenceLevel(got.decision.confidence) = "TypeError"
       THEN [got EXCEPT !.raised = "TypeError", !.decision = NoDecision]
       ELSE got

-----------------------------------------------------------------------------
(* HPAConfiguration and the reconciler *)

\* HPAConfiguration.__init__: the argument checks of lines 34-41
ValidArguments(minR, maxR, cpu, mem) ==
    /\ ~(minR < 1)
    /\ ~(maxR < minR)
    /\ (1 <= cpu /\ cpu <= 100)
    /\ (1 <= mem /\ mem <= 100)

HPAConfiguration(minR, maxR, cpu, mem) ==
    [min_replicas |-> minR, max_replicas |-> maxR,
     target_cpu_utilization |-> cpu, target_memory_utilization |-> mem]

\* a mutant of line 202: min() where max() is meant
ScaleUpNewMaxMin(r, config) == Min(r + 5, config.max_replicas)

\* a mutant of line 202: the old maximum is not kept
ScaleUpNewMaxCountOnly(r, config) == r + 5

\* line 202
ScaleUpNewMax(r, config) == Max(r + 5, config.max_replicas)

\* a mutant of line 203: the old minimum is not kept
ScaleUpNewMinReplaced(r, config) == IntMul05(r)

\* line 203
ScaleUpNewMin(r, config) == Max(config.min_replicas, IntMul05(r))

\* a mutant of line 214: the count less 3
ScaleDownNewMaxBelow(r) == r - 3

\* line 214
ScaleDownNewMax(r) == r + 3

\* a mutant of line 215: a floor of 1 where 2 is meant
ScaleDownNewMinFromOne(r) == Max(1, r - 1)

\* line 215
ScaleDownNewMin(r) == Max(2, r - 1)

Change(field, old, new) == [field |-> field, old |-> old, new |-> new]

NoRecommendation == [present |-> FALSE, memory_increase |-> None, cpu_increase |-> None]

\* lines 198-232: the branch on decision.action.  Gives the config after the
\* branch, result["changes"], result["note"] and result["recommendation"].
\* recommended_pod_count is None or an int in every decision of the model.
ApplyBranch(config, d) ==
    LET r == d.recommended_pod_count
        unchanged == [config |-> config, changes |-> {}, note |-> None,
                      recommendation |-> NoRecommendation]
        mutated(newMin, newMax) ==
            [config |-> [config EXCEPT !.min_replicas = newMin,
                                       !.max_replicas = newMax],
             changes |-> {Change("min_replicas", config.min_replicas, newMin),
                          Change("max_replicas", config.max_replicas, newMax)},
             note |-> None,
             recommendation |-> NoRecommendation]
    IN IF d.action = StrV("scale_up_horizontal")
       THEN IF Truthy(r)
            THEN mutated(ScaleUpNewMin(r[2], config), ScaleUpNewMax(r[2], config))
            ELSE unchanged
       ELSE IF d.action = StrV("scale_down_horizontal")
       THEN IF Truthy(r)
            THEN mutated(ScaleDownNewMin(r[2]), ScaleDownNewMax(r[2]))
            ELSE unchanged
       ELSE IF d.action \in {StrV("scale_up_vertical"), StrV("scale_down_vertical")}
       THEN [unchanged EXCEPT
                !.note = StrV("Vertical scaling requires deployment resource updates, not HPA changes"),
                !.recommendation = [present |-> TRUE,
                                    memory_increase |-> d.recommended_memory_increase,
                                    cpu_increase |-> d.recommended_cpu_increase]]
       ELSE IF d.action = StrV("maintain")
       THEN [unchanged EXCEPT
                !.note = StrV("No HPA changes needed, current configuration is appropriate")]
       ELSE unchanged

\* what the kubectl run of _apply_hpa_to_cluster can come to: exit status 0, a
\* non-zero exit status, or an exception (a timeout, no kubectl)
ApplyOutcomes == {"success", "nonzero_exit", "exception"}

\* K8sHPAManager._apply_hpa_to_cluster: True only for exit status 0
ApplyHpaToCluster(outcome) == outcome = "success"

\* a mutant of line 235: the cluster is updated whenever dry_run is off
ShouldApplyAlways(changes, dry) == ~dry

\* line 235
ShouldApply(changes, dry) == changes # {} /\ ~dry

\* a mutant of line 237: a started apply counts as applied
AppliedFlagOptimistic(applySuccess) == TRUE

\* line 237
AppliedFlag(applySuccess) == applySuccess

\* K8sHPAManager._apply_decision_to_hpa: the config after the call, the result
\* dictionary (hpa_name and timestamp left out) and what the applier returned
\* each time it was invoked
ApplyDecisionOutcome(config, dry, d, outcome) ==
    LET b == ApplyBranch(config, d)
        applies == ShouldApply(b.changes, dry)
        success == ApplyHpaToCluster(outcome)
    IN [config |-> b.config,
        cluster_applies |-> IF applies THEN <<success>> ELSE <<>>,
        result |->
            [decision |-> d,
             changes |-> b.changes,
             applied |-> IF applies THEN AppliedFlag(success) ELSE FALSE,
             dry_run |-> dry,
             note |-> IF ~applies /\ b.changes # {}
                      THEN StrV("Dry-run mode: Changes not applied to cluster")
                      ELSE b.note,
             recommendation |-> b.recommendation]]

-----------------------------------------------------------------------------
(* The schedule generator (examples/scaling/schedule_generator.py) *)

\* A Python str that the code formats or splits is a sequence of characters.
Digits == <<"0", "1", "2", "3", "4", "5", "6", "7", "8", "9">>

RECURSIVE Decimal(_)
\* str(n) for n >= 0
Decimal(n) ==
    IF n < 10 THEN <<Digits[n + 1]>>
    ELSE Decimal(n \div 10) \o <<Digits[(n % 10) + 1]>>

\* f"{n:02d}" for n >= 0
Format02d(n) == IF n < 10 THEN <<"0">> \o Decimal(n) ELSE Decimal(n)

\* f"{hour:02d}:{minute:02d}"
TimeText(hour, minute) == Format02d(hour) \o <<":">> \o Format02d(minute)

RECURSIVE Split(_, _)
\* s.split(sep) for a one-character separator
Split(s, sep) ==
    IF \A i \in 1 .. Len(s) : s[i] # sep THEN <<s>>
    ELSE LET i == CHOOSE k \in 1 .. Len(s) :
                     s[k] = sep /\ \A j \in 1 .. (k - 1) : s[j] # sep
         IN <<SubSeq(s, 1, i - 1)>> \o Split(SubSeq(s, i + 1, Len(s)), sep)

\* a reason text: an f-string template and the values it is filled with
Reason(template, args) == [template |-> template, args |-> args]

\* the dictionary ScalingSchedule.add_entry builds; day_of_week is Missing when
\* the key is not set
Entry(time, target_pods, reason, day_of_week, confidence) ==
    [time |-> time, target_pods |-> target_pods, reason |-> reason,
     confidence |-> confidence,
     day_of_week |-> IF Truthy(day_of_week) THEN day_of_week ELSE Missing]

ScalingSchedule(name, description) ==
    [name |-> name, description |-> description, schedule_entries |-> <<>>]

\* a mutant of line 50: an entry replaces the entry that has its time
AddEntryMerged(sched, time, target_pods, reason, day_of_week, confidence) ==
    LET entry == Entry(time, target_pods, reason, day_of_week, confidence)
        held == sched.schedule_entries
    IN [sched EXCEPT !.schedule_entries =
           IF \E i \in 1 .. Len(held) : held[i].time = time
           THEN [i \in 1 .. Len(held) |->
                    IF held[i].time = time THEN entry ELSE held[i]]
           ELSE Append(held, entry)]

\* ScalingSchedule.add_entry; confidence in hundredths
AddEntry(sched, time, target_pods, reason, day_of_week, confidence) ==
    [sched EXCEPT !.schedule_entries =
        Append(@, Entry(time, target_pods, reason, day_of_week, confidence))]

\* f"{hour} {minute} * * *": the fields in the order of the source's parameters
CronExprHourFirst(minute, hour, days) ==
    hour \o <<" ">> \o minute \o <<" ", "*", " ", "*", " ">> \o days

\* f"{minute} {hour} * * {days}"
CronExpr(minute, hour, days) ==
    minute \o <<" ">> \o hour \o <<" ", "*", " ", "*", " ">> \o days

\* str.lower() on the day names a caller passes
Lower(s) ==
    CASE s \in {"Weekend", "WEEKEND"} -> "weekend"
      [] s \in {"Weekday", "WEEKDAY"} -> "weekday"
      [] OTHER -> s

\* the day-of-week field to_cron_jobs writes for an entry
CronDays(entry) ==
    IF entry.day_of_week = Missing THEN <<"*">>
    ELSE CASE Lower(entry.day_of_week[2]) = "weekend" -> <<"0", ",", "6">>
           [] Lower(entry.day_of_week[2]) = "weekday" -> <<"1", "-", "5">>
           [] OTHER -> <<"*">>

\* one iteration of the loop of to_cron_jobs; the unpacking of split(":")
\* needs exactly two parts
CronJob(entry) ==
    LET parts == Split(entry.time, ":")
    IN [schedule |-> CronExpr(parts[2], parts[1], CronDays(entry)),
        target_pods |-> entry.target_pods,
        reason |-> entry.reason,
        kubectl_command |->
            <<"kubectl scale deployment ai-inference-service --replicas=",
              entry.target_pods>>]

\* ScalingSchedule.to_cron_jobs
ToCronJobsOutcome(sched) ==
    LET entries == sched.schedule_entries
    IN IF \E i \in 1 .. Len(entries) : Len(Split(entries[i].time, ":")) # 2
       THEN [raised |-> "ValueError", jobs |-> <<>>]
       ELSE [raised |-> "none",
             jobs |-> [i \in 1 .. Len(entries) |-> CronJob(entries[i])]]

RECURSIVE GCD(_, _)
GCD(a, b) == IF b = 0 THEN a ELSE GCD(b, a % b)

\* Averages and thresholds are kept as exact fractions <<n, d>>, d > 0, in
\* lowest terms.
Rat(n, d) ==
    LET g == GCD(IF n < 0 THEN -n ELSE n, d)
    IN IF g = 0 THEN <<0, 1>> ELSE <<n \div g, d \div g>>
RatAdd(a, b) == Rat(a[1] * b[2] + b[1] * a[2], a[2] * b[2])
RatTimes(a, n, d) == Rat(a[1] * n, a[2] * d)
RatLess(a, b) == a[1] * b[2] < b[1] * a[2]
RatMax(a, b) == IF RatLess(a, b) THEN b ELSE a

RECURSIVE SumRat(_)
SumRat(values) ==
    IF values = <<>> THEN Rat(0, 1) ELSE RatAdd(Head(values), SumRat(Tail(values)))

\* sum(values) / len(values)
Mean(values) == RatTimes(SumRat(values), 1, Len(values))

\* datetime.strftime("%A") of a weekday number (Monday = 0)
DayNames == <<"Monday", "Tuesday", "Wednesday", "Thursday", "Friday",
              "Saturday", "Sunday">>

\* one element of metrics_history
Sample(hour, weekday, metrics) ==
    [timestamp |-> [hour |-> hour, weekday |-> weekday], metrics |-> metrics]

RECURSIVE FirstSeen(_)
\* the keys of a dict in insertion order: each value at its first occurrence
FirstSeen(keys) ==
    IF keys = <<>> THEN <<>>
    ELSE LET front == FirstSeen(SubSeq(keys, 1, Len(keys) - 1))
             last == keys[Len(keys)]
         IN IF \E i \in 1 .. Len(front) : front[i] = last
            THEN front ELSE Append(front, last)

\* [m.<field> for m in metrics_list], as fractions
FieldValues(metrics_list, field) ==
    [i \in 1 .. Len(metrics_list) |-> Rat(metrics_list[i].metrics[field], 1)]

MaxOfSeq(values) ==
    CHOOSE x \in {values[i] : i \in 1 .. Len(values)} :
        \A i \in 1 .. Len(values) : values[i] <= x

\* hourly_averages[hour]; the dict key is kept in the record
HourlyAverage(hour, metrics_list) ==
    [hour |-> hour,
     cpu |-> Mean(FieldValues(metrics_list, "cpu_utilization")),
     memory |-> Mean(FieldValues(metrics_list, "memory_utilization")),
     rps |-> Mean(FieldValues(metrics_list, "request_rate")),
     avg_pods |-> Mean(FieldValues(metrics_list, "current_pod_count")),
     max_pods |-> MaxOfSeq([i \in 1 .. Len(metrics_list) |->
                               metrics_list[i].metrics.current_pod_count])]

\* hourly_averages, a dict: its items in insertion order
HourlyAverages(history) ==
    LET keys == FirstSeen([i \in 1 .. Len(history) |-> history[i].timestamp.hour])
    IN [k \in 1 .. Len(keys) |->
           HourlyAverage(keys[k],
               SelectSeq(history, LAMBDA s : s.timestamp.hour = keys[k]))]

\* daily_averages[day]
DailyAverage(day, metrics_list) ==
    [day |-> day,
     cpu |-> Mean(FieldValues(metrics_list, "cpu_utilization")),
     memory |-> Mean(FieldValues(metrics_list, "memory_utilization")),
     rps |-> Mean(FieldValues(metrics_list, "request_rate")),
     avg_pods |-> Mean(FieldValues(metrics_list, "current_pod_count"))]

DailyAverages(history) ==
    LET keys == FirstSeen([i \in 1 .. Len(history) |->
                              DayNames[history[i].timestamp.weekday + 1]])
    IN [k \in 1 .. Len(keys) |->
           DailyAverage(keys[k],
               SelectSeq(history,
                         LAMBDA s : DayNames[s.timestamp.weekday + 1] = keys[k]))]

\* the mean over the hours of one of their averages
OverallAverage(hourly_averages, field) ==
    Mean([i \in 1 .. Len(hourly_averages) |-> hourly_averages[i][field]])

RECURSIVE SortedByCpuDescending(_)
\* sorted(peak_hours, key=cpu, reverse=True): stable
SortedByCpuDescending(items) ==
    IF items = <<>> THEN <<>>
    ELSE LET rest == SortedByCpuDescending(Tail(items))
             x == Head(items)
             k == Cardinality({i \in 1 .. Len(rest) : RatLess(x.cpu, rest[i].cpu)})
         IN SubSeq(rest, 1, k) \o <<x>> \o SubSeq(rest, k + 1, Len(rest))

\* the low-traffic hours left in the order of the hourly averages
SortedByHourSkipped(items) == items

RECURSIVE SortedByHour(_)
\* sorted(low_hours, key=hour)
SortedByHour(items) ==
    IF items = <<>> THEN <<>>
    ELSE LET rest == SortedByHour(Tail(items))
             x == Head(items)
             k == Cardinality({i \in 1 .. Len(rest) : rest[i].hour < x.hour})
         IN SubSeq(rest, 1, k) \o <<x>> \o SubSeq(rest, k + 1, Len(rest))

\* a peak test with the factor 0.5 where 1.5 is meant
IsPeakAboveHalf(metrics, avg_cpu, avg_rps) ==
    \/ RatLess(RatTimes(avg_cpu, 1, 2), metrics.cpu)
    \/ RatLess(RatTimes(avg_rps, 1, 2), metrics.rps)

\* a peak test that looks at the processor load only
IsPeakCpuOnly(metrics, avg_cpu, avg_rps) ==
    RatLess(RatTimes(avg_cpu, 3, 2), metrics.cpu)

\* metrics["cpu"] > avg_cpu * 1.5 or metrics["rps"] > avg_rps * 1.5
IsPeak(metrics, avg_cpu, avg_rps) ==
    \/ RatLess(RatTimes(avg_cpu, 3, 2), metrics.cpu)
    \/ RatLess(RatTimes(avg_rps, 3, 2), metrics.rps)

\* ScheduleGenerator._identify_peak_hours
IdentifyPeakHours(hourly_averages) ==
    IF hourly_averages = <<>> THEN <<>>
    ELSE LET avg_cpu == OverallAverage(hourly_averages, "cpu")
             avg_rps == OverallAverage(hourly_averages, "rps")
             peaks == SelectSeq(hourly_averages,
                                LAMBDA m : IsPeak(m, avg_cpu, avg_rps))
         IN SortedByCpuDescending(
                [i \in 1 .. Len(peaks) |->
                    [hour |-> peaks[i].hour, cpu |-> peaks[i].cpu,
                     rps |-> peaks[i].rps, severity |-> "high"]])

\* metrics["cpu"] < avg_cpu * 0.5 and metrics["rps"] < avg_rps * 0.5
IsLow(metrics, avg_cpu, avg_rps) ==
    /\ RatLess(metrics.cpu, RatTimes(avg_cpu, 1, 2))
    /\ RatLess(metrics.rps, RatTimes(avg_rps, 1, 2))

\* ScheduleGenerator._identify_low_hours
IdentifyLowHours(hourly_averages) ==
    IF hourly_averages = <<>> THEN <<>>
    ELSE LET avg_cpu == OverallAverage(hourly_averages, "cpu")
             avg_rps == OverallAverage(hourly_averages, "rps")
             lows == SelectSeq(hourly_averages,
                               LAMBDA m : IsLow(m, avg_cpu, avg_rps))
         IN SortedByHour(
                [i \in 1 .. Len(lows) |->
                    [hour |-> lows[i].hour, cpu |-> lows[i].cpu,
                     rps |-> lows[i].rps]])

\* the dictionary analyze_patterns returns; keys is the set of its keys
\* (analysis_timestamp, the wall clock, is left out)
ErrorPatterns ==
    [keys |-> {"error"}, error |-> "No metrics history provided",
     hourly_patterns |-> <<>>, daily_patterns |-> <<>>,
     peak_hours |-> <<>>, low_traffic_hours |-> <<>>]

\* `if not metrics_history` never taken
NoMetricsHistoryNever(history) == FALSE

\* `if not metrics_history`
NoMetricsHistory(history) == history = <<>>

\* ScheduleGenerator.analyze_patterns
AnalyzePatternsOutcome(history) ==
    IF NoMetricsHistory(history) THEN ErrorPatterns
    ELSE LET hourly_averages == HourlyAverages(history)
         IN [keys |-> {"hourly_patterns", "daily_patterns", "peak_hours",
                       "low_traffic_hours", "analysis_timestamp"},
             error |-> "",
             hourly_patterns |-> hourly_averages,
             daily_patterns |-> DailyAverages(history),
             peak_hours |-> IdentifyPeakHours(hourly_averages),
             low_traffic_hours |-> IdentifyLowHours(hourly_averages)]

\* int(avg_pods * max(1.0, max(cpu / 70.0, memory / 80.0))), then the clamp
RecommendedPods(metrics, minPods, maxPods) ==
    LET scaling_factor == RatMax(RatTimes(metrics.cpu, 1, 70),
                                 RatTimes(metrics.memory, 1, 80))
        factor == RatMax(Rat(1, 1), scaling_factor)
        product == Rat(metrics.avg_pods[1] * factor[1], metrics.avg_pods[2] * factor[2])
    IN Max(minPods, Min(maxPods, TruncDiv(product[1], product[2])))

\* a mutant of line 225: the pre-scale entry stays in the peak hour
PreScaleHourSame(hour) == hour

\* line 225: pre_hour = (hour - 1) % 24
PreScaleHour(hour) == (hour - 1) % 24

\* the entries the first loop of generate_schedule adds for one hour
HourEntries(sched, metrics, peak_hours, minPods, maxPods) ==
    LET hour == metrics.hour
        recommended_pods == RecommendedPods(metrics, minPods, maxPods)
        is_peak == \E i \in 1 .. Len(peak_hours) : peak_hours[i].hour = hour
        pre == IF is_peak
               THEN AddEntry(sched, TimeText(PreScaleHour(hour), 30), recommended_pods,
                             Reason("Pre-scale for peak hour {hour}:00", <<hour>>),
                             None, 90)
               ELSE sched
    IN AddEntry(pre, TimeText(hour, 0), recommended_pods,
                Reason("Scheduled scaling for hour {hour}", <<hour>>), None, 85)

RECURSIVE HourlyLoop(_, _, _, _, _)
\* for hour in sorted(hourly_averages.keys()): ...
HourlyLoop(sched, sorted_averages, peak_hours, minPods, maxPods) ==
    IF sorted_averages = <<>> THEN sched
    ELSE HourlyLoop(HourEntries(sched, Head(sorted_averages), peak_hours,
                                minPods, maxPods),
                    Tail(sorted_averages), peak_hours, minPods, maxPods)

RECURSIVE LowTrafficLoop(_, _, _)
\* for hour_info in patterns["low_traffic_hours"]: ...
LowTrafficLoop(sched, low_hours, minPods) ==
    IF low_hours = <<>> THEN sched
    ELSE LowTrafficLoop(
             AddEntry(sched, TimeText(Head(low_hours).hour, 0), minPods,
                      Reason("Scale down during low traffic", <<>>), None, 95),
             Tail(low_hours), minPods)

\* ScheduleGenerator.generate_schedule
GenerateScheduleOutcome(history, minPods, maxPods) ==
    LET found == AnalyzePatternsOutcome(history)
    IN IF "error" \in found.keys
       THEN [patterns |-> found, schedule |-> ScalingSchedule("error-schedule", "")]
       ELSE [patterns |-> found,
             schedule |->
                 LowTrafficLoop(
                     HourlyLoop(ScalingSchedule("ai-workload-schedule",
                                    "Generated from historical metrics analysis"),
                                SortedByHour(found.hourly_patterns),
                                found.peak_hours, minPods, maxPods),
                     found.low_traffic_hours, minPods)]

\* lines 269-273: timestamp.weekday() < 5, Monday = 0 and Friday = 4
WeekdayMetrics(history) == SelectSeq(history, LAMBDA s : s.timestamp.weekday < 5)
WeekendMetrics(history) == SelectSeq(history, LAMBDA s : ~(s.timestamp.weekday < 5))

\* lines 279-280 and 285-286: the name and the description are replaced; the
\* entries stay as generate_schedule added them
Renamed(sched, name, description) ==
    [sched EXCEPT !.name = name, !.description = description]

\* ScheduleGenerator.generate_weekly_schedule: a dictionary with the key
\* "weekday" if a sample falls on Monday to Friday and the key "weekend" if
\* one falls on Saturday or Sunday
GenerateWeeklyScheduleOutcome(history, minPods, maxPods) ==
    LET weekday_metrics == WeekdayMetrics(history)
        weekend_metrics == WeekendMetrics(history)
        keys == (IF weekday_metrics # <<>> THEN {"weekday"} ELSE {})
                    \cup (IF weekend_metrics # <<>> THEN {"weekend"} ELSE {})
    IN [key \in keys |->
           IF key = "weekday"
           THEN Renamed(GenerateScheduleOutcome(weekday_metrics, minPods, maxPods).schedule,
                        "weekday-schedule", "Scaling schedule for Monday-Friday")
           ELSE Renamed(GenerateScheduleOutcome(weekend_metrics, minPods, maxPods).schedule,
                        "weekend-schedule", "Scaling schedule for Saturday-Sunday")]

-----------------------------------------------------------------------------
(* Inputs *)

\* pod counts at which int(pods * 0.7) falls below the real product
LargePodCounts == {90}
PodCounts == (0 .. MaxPods) \cup LargePodCounts

CpuValues == {12, 19, 20, 45, 80, 81, 88}
MemoryValues == {22, 29, 30, 55, 85, 86, 90, 91, 96}

Snapshots ==
    {ScalingMetrics(c, m, 120, p) : c \in CpuValues, m \in MemoryValues, p \in PodCounts}

\* the four scenarios of main() and two boundary snapshots
ExampleSnapshots ==
    {ScalingMetrics(45, 55, 120, 3), ScalingMetrics(88, 85, 620, 3),
     ScalingMetrics(12, 22, 45, 8), ScalingMetrics(54, 96, 185, 5),
     ScalingMetrics(12, 22, 45, 2), ScalingMetrics(88, 96, 620, 0)}

HistoryPoints ==
    {ScalingMetrics(0, 0, 0, 3), ScalingMetrics(45, 55, 0, 3),
     ScalingMetrics(72, 78, 420, 3)}

RECURSIVE SeqsUpTo(_, _)
SeqsUpTo(S, n) ==
    IF n = 0 THEN {<<>>}
    ELSE LET shorter == SeqsUpTo(S, n - 1)
         IN shorter \cup {Append(q, x) : q \in shorter, x \in S}

Histories == {NoHistory} \cup {History(q) : q \in SeqsUpTo(HistoryPoints, MaxHist)}

JsonObjects ==
    {JsonObject(f) : f \in
        [action : {Missing, StrV("scale_up_horizontal"),
                   StrV("scale_down_horizontal"), StrV("restart")},
         recommended_pod_count : {Missing, None, IntV(-5), IntV(4)},
         recommended_memory_increase : {Missing},
         recommended_cpu_increase : {Missing},
         confidence : {Missing, FloatV(95), FloatV(150), StrV("high")},
         reasoning : {StrV("backend analysis")},
         urgency : {Missing, StrV("critical"), StrV("whenever")},
         estimated_cost_impact : {Missing}]}

Responses == FailedResponses \cup JsonObjects

-----------------------------------------------------------------------------
(* Operations *)

NoResult == [absent |-> TRUE]

\* AIScalingEngine.analyze_metrics, called on its own
AnalyzeMetrics(metrics, history, resp) ==
    LET out == AnalyzeMetricsOutcome(client, metrics, history, resp)
    IN /\ op' = "analyze_metrics"
       /\ current_metrics' = metrics
       /\ historical_metrics' = history
       /\ response' = out.response
       /\ backend_calls' = out.backend_calls
       /\ decision' = out.decision
       /\ raised' = out.raised
       /\ UNCHANGED <<client, managerVars, scheduleVars, threads>>

NoPatterns == [absent |-> TRUE]
NoSchedule == [absent |-> TRUE]
\* no generate_weekly_schedule call has returned: a dictionary without keys
NoSchedules == [key \in {} |-> NoSchedule]

\* no schedule-generator call has been made or is about to be made
NoScheduleArguments ==
    /\ metrics_history = <<>>
    /\ min_pods = 2
    /\ max_pods = 20
    /\ patterns = NoPatterns
    /\ schedule = NoSchedule
    /\ schedules = NoSchedules
    /\ cron_jobs = <<>>

\* the state after AIScalingEngine.__init__ and the construction of a config
\* and a manager, before any call has run
Constructed(hasClient, dry, config) ==
    /\ client = hasClient
    /\ dry_run = dry
    /\ hpa_config = config
    /\ applied_changes = <<>>
    /\ op = "init"
    /\ backend_calls = 0
    /\ decision = NoDecision
    /\ raised = "none"
    /\ original = config
    /\ result = NoResult
    /\ cluster_applies = <<>>

\* no thread is inside _apply_decision_to_hpa
NoThreads == threads = <<>>

\* no analyze_metrics call has been made or is about to be made
NoAnalyzeArguments ==
    /\ current_metrics = ScalingMetrics(0, 0, 0, 0)
    /\ historical_metrics = NoHistory
    /\ response = NotCalled

DefaultConfig == HPAConfiguration(3, 20, 70, 80)

\* one analyze_metrics call on the arguments the initial state holds
AnalyzeArguments ==
    /\ op = "init"
    /\ AnalyzeMetrics(current_metrics, historical_metrics, response)

\* The rule-based engine alone: no reasoning backend is configured.  The
\* initial state draws the snapshot the call is made with.
InitRules ==
    /\ Constructed(FALSE, TRUE, DefaultConfig)
    /\ current_metrics \in Snapshots
    /\ historical_metrics = NoHistory
    /\ response = NotCalled
    /\ NoScheduleArguments
    /\ NoThreads
NextRules == AnalyzeArguments
SpecRules == InitRules /\ [][NextRules]_vars

\* The engine with a reasoning backend configured.  The initial state draws
\* the arguments of the call and what the backend is going to answer.
InitEngine ==
    /\ Constructed(TRUE, TRUE, DefaultConfig)
    /\ current_metrics \in ExampleSnapshots
    /\ historical_metrics \in Histories
    /\ response \in Responses
    /\ NoScheduleArguments
    /\ NoThreads
NextEngine == AnalyzeArguments
SpecEngine == InitEngine /\ [][NextEngine]_vars

-----------------------------------------------------------------------------
(* The reconciler's operations *)

\* a mutant of line 241: the newest record is put first
AuditPrepend(changes, record) == <<record>> \o changes

\* line 241: self.applied_changes.append(result)
AuditAppend(changes, record) == Append(changes, record)

\* K8sHPAManager._apply_decision_to_hpa, called with a decision of the caller's
ApplyDecisionToHpa(d, outcome) ==
    LET out == ApplyDecisionOutcome(hpa_config, dry_run, d, outcome)
    IN /\ op' = "apply_decision_to_hpa"
       /\ decision' = d
       /\ raised' = "none"
       /\ original' = hpa_config
       /\ hpa_config' = out.config
       /\ result' = out.result
       /\ cluster_applies' = out.cluster_applies
       /\ applied_changes' = AuditAppend(applied_changes, out.result)
       /\ UNCHANGED <<client, dry_run, engineVars, scheduleVars, threads>>

\* K8sHPAManager.update_hpa_from_metrics: analyze_metrics, then
\* _apply_decision_to_hpa unless the analysis raised
UpdateHpaFromMetrics(metrics, history, resp, outcome) ==
    LET got == AnalyzeMetricsOutcome(client, metrics, history, resp)
        out == ApplyDecisionOutcome(hpa_config, dry_run, got.decision, outcome)
    IN /\ op' = "update_hpa_from_metrics"
       /\ current_metrics' = metrics
       /\ historical_metrics' = history
       /\ response' = got.response
       /\ backend_calls' = got.backend_calls
       /\ decision' = got.decision
       /\ raised' = got.raised
       /\ original' = hpa_config
       /\ IF got.raised # "none"
          THEN /\ result' = NoResult
               /\ cluster_applies' = <<>>
               /\ UNCHANGED <<hpa_config, applied_changes>>
          ELSE /\ hpa_config' = out.config
               /\ result' = out.result
               /\ cluster_applies' = out.cluster_applies
               /\ applied_changes' = AuditAppend(applied_changes, out.result)
       /\ UNCHANGED <<client, dry_run, scheduleVars, threads>>

\* the configurations HPAConfiguration.__init__ accepts, among the arguments
\* the model draws
ConstructorTargets == {<<70, 80>>, <<1, 100>>, <<0, 80>>, <<70, 101>>}
ConstructedConfigs ==
    {HPAConfiguration(a, b, t[1], t[2]) :
        a \in 0 .. MaxReplicas, b \in 0 .. MaxReplicas, t \in ConstructorTargets}
ValidConfigs ==
    {c \in ConstructedConfigs :
        ValidArguments(c.min_replicas, c.max_replicas,
                       c.target_cpu_utilization, c.target_memory_utilization)}

\* snapshots the reconciler is driven with: each rule's case, few pod counts
ReconcilePodCounts == {0, 3, 8}
ReconcileSnapshots ==
    {ScalingMetrics(u[1], u[2], 120, p) :
        u \in {<<45, 55>>, <<88, 85>>, <<12, 22>>, <<54, 96>>},
        p \in ReconcilePodCounts}

\* decisions a caller (or a backend) can hand to the reconciler
HorizontalCounts == {None, IntV(-5), IntV(0), IntV(4)}
CallerDecisions ==
    {ScalingDecision(StrV(a), r, None, None, FloatV(95), StrV("caller"),
                     StrV("normal"), None) :
        a \in {"scale_up_horizontal", "scale_down_horizontal"},
        r \in HorizontalCounts}
    \cup {ScalingDecision(StrV("maintain"), IntV(4), None, None, FloatV(95),
                          StrV("caller"), StrV("normal"), None),
          ScalingDecision(StrV("scale_up_vertical"), None, StrV("50%"), None,
                          FloatV(95), StrV("caller"), StrV("high"), None),
          ScalingDecision(StrV("scale_down_vertical"), IntV(4), None, StrV("-25%"),
                          FloatV(95), StrV("caller"), StrV("low"), None),
          ScalingDecision(StrV("restart"), IntV(4), None, None, FloatV(95),
                          StrV("caller"), StrV("normal"), None)}

\* what the backend answers in the reconciler's runs
ReconcileResponses ==
    {[kind |-> "not_json"],
     JsonObject([action |-> StrV("scale_down_horizontal"),
                 recommended_pod_count |-> IntV(-5),
                 recommended_memory_increase |-> Missing,
                 recommended_cpu_increase |-> Missing,
                 confidence |-> FloatV(95),
                 reasoning |-> StrV("backend analysis"),
                 urgency |-> Missing,
                 estimated_cost_impact |-> Missing]),
     JsonObject([action |-> Missing,
                 recommended_pod_count |-> Missing,
                 recommended_memory_increase |-> Missing,
                 recommended_cpu_increase |-> Missing,
                 confidence |-> StrV("high"),
                 reasoning |-> StrV("backend analysis"),
                 urgency |-> Missing,
                 estimated_cost_impact |-> Missing])}

\* The reconciler driven by the rule-based engine: no backend is configured
InitRuleBased ==
    /\ \E dry \in BOOLEAN, config \in ValidConfigs : Constructed(FALSE, dry, config)
    /\ NoAnalyzeArguments
    /\ NoScheduleArguments
    /\ NoThreads
NextRuleBased ==
    /\ Len(applied_changes) < MaxCalls
    /\ \E m \in ReconcileSnapshots, outcome \in ApplyOutcomes :
          UpdateHpaFromMetrics(m, NoHistory, NotCalled, outcome)
SpecRuleBased == InitRuleBased /\ [][NextRuleBased]_vars

\* The reconciler with any engine and any decision
Init ==
    /\ \E hasClient \in BOOLEAN, dry \in BOOLEAN, config \in ValidConfigs :
          Constructed(hasClient, dry, config)
    /\ NoAnalyzeArguments
    /\ NoScheduleArguments
    /\ NoThreads
ReconcileDecision ==
    /\ Len(applied_changes) < MaxAudit
    /\ \E d \in CallerDecisions, outcome \in ApplyOutcomes :
          ApplyDecisionToHpa(d, outcome)
IdleHistory == History(<<ScalingMetrics(45, 55, 0, 3), ScalingMetrics(45, 55, 0, 3)>>)
ReconcileMetrics ==
    /\ Len(applied_changes) < MaxAudit
    /\ \E m \in {ScalingMetrics(88, 85, 620, 3), ScalingMetrics(12, 22, 45, 8)},
          h \in {NoHistory, IdleHistory},
          r \in ReconcileResponses, outcome \in ApplyOutcomes :
             UpdateHpaFromMetrics(m, h, r, outcome)
Next == ReconcileDecision \/ ReconcileMetrics
Spec == Init /\ [][Next]_vars

-----------------------------------------------------------------------------
(* The schedule generator's operations *)

\* ScheduleGenerator.analyze_patterns, called on its own
AnalyzePatterns(history) ==
    /\ op' = "analyze_patterns"
    /\ raised' = "none"
    /\ patterns' = AnalyzePatternsOutcome(history)
    /\ UNCHANGED <<client, engineVars, decision, managerVars, metrics_history,
                   min_pods, max_pods, schedule, schedules, cron_jobs, threads>>

\* ScheduleGenerator.generate_schedule; patterns is its local dictionary
GenerateSchedule(history, minPods, maxPods) ==
    LET out == GenerateScheduleOutcome(history, minPods, maxPods)
    IN /\ op' = "generate_schedule"
       /\ raised' = "none"
       /\ patterns' = out.patterns
       /\ schedule' = out.schedule
       /\ UNCHANGED <<client, engineVars, decision, managerVars, metrics_history,
                      min_pods, max_pods, schedules, cron_jobs, threads>>

\* ScalingSchedule.to_cron_jobs on the schedule generate_schedule returned
ToCronJobs ==
    LET out == ToCronJobsOutcome(schedule)
    IN /\ op' = "to_cron_jobs"
       /\ raised' = out.raised
       /\ cron_jobs' = out.jobs
       /\ UNCHANGED <<client, engineVars, decision, managerVars, metrics_history,
                      min_pods, max_pods, patterns, schedule, schedules, threads>>

\* hour of day and weekday (Monday = 0) of the timestamps the model draws
SampleTimes == {<<0, 0>>, <<9, 0>>, <<23, 5>>}
\* cpu, memory, request rate and pod count of an hour with busy processors,
\* an idle (and over-provisioned) hour and an hour with many requests
SampleLoads == {<<90, 60, 600, 4>>, <<10, 20, 50, 6>>, <<50, 50, 900, 3>>}
Samples ==
    {Sample(t[1], t[2], ScalingMetrics(l[1], l[2], l[3], l[4])) :
        t \in SampleTimes, l \in SampleLoads}
MetricsHistories == SeqsUpTo(Samples, MaxSamples)

\* min_pods and max_pods: the defaults, those of main(), and an empty range
PodBounds == {<<2, 20>>, <<3, 10>>, <<5, 3>>}

\* One run of the schedule generator: the initial state draws the history and
\* the pod bounds; the history is analysed, or turned into a schedule that is
\* then translated to cron jobs.
InitSchedule ==
    /\ Constructed(FALSE, TRUE, DefaultConfig)
    /\ NoAnalyzeArguments
    /\ metrics_history \in MetricsHistories
    /\ \E b \in PodBounds : min_pods = b[1] /\ max_pods = b[2]
    /\ patterns = NoPatterns
    /\ schedule = NoSchedule
    /\ schedules = NoSchedules
    /\ cron_jobs = <<>>
    /\ NoThreads
AnalyzeHistory ==
    /\ op = "init"
    /\ AnalyzePatterns(metrics_history)
GenerateFromHistory ==
    /\ op \in {"init", "analyze_patterns"}
    /\ GenerateSchedule(metrics_history, min_pods, max_pods)
TranslateSchedule ==
    /\ op = "generate_schedule"
    /\ ToCronJobs
NextSchedule == AnalyzeHistory \/ GenerateFromHistory \/ TranslateSchedule
SpecSchedule == InitSchedule /\ [][NextSchedule]_vars

\* ScheduleGenerator.generate_weekly_schedule; the patterns of its two
\* generate_schedule calls are locals of those calls
GenerateWeeklySchedule(history, minPods, maxPods) ==
    /\ op' = "generate_weekly_schedule"
    /\ raised' = "none"
    /\ schedules' = GenerateWeeklyScheduleOutcome(history, minPods, maxPods)
    /\ UNCHANGED <<client, engineVars, decision, managerVars, metrics_history,
                   min_pods, max_pods, patterns, schedule, cron_jobs, threads>>

\* ScalingSchedule.to_cron_jobs on schedules[key]
ToCronJobsOf(key) ==
    LET out == ToCronJobsOutcome(schedules[key])
    IN /\ op' = "to_cron_jobs"
       /\ raised' = out.raised
       /\ schedule' = schedules[key]
       /\ cron_jobs' = out.jobs
       /\ UNCHANGED <<client, engineVars, decision, managerVars, metrics_history,
                      min_pods, max_pods, patterns, schedules, threads>>

\* hour of day and weekday of the timestamps of a weekly history: a Monday, a
\* Friday, a Saturday and a Sunday
WeeklySampleTimes == {<<0, 0>>, <<9, 4>>, <<9, 5>>, <<23, 6>>}
WeeklySampleLoads == {<<90, 60, 600, 4>>, <<10, 20, 50, 6>>}
WeeklySamples ==
    {Sample(t[1], t[2], ScalingMetrics(l[1], l[2], l[3], l[4])) :
        t \in WeeklySampleTimes, l \in WeeklySampleLoads}
WeeklyHistories == SeqsUpTo(WeeklySamples, MaxSamples)

\* One run of the weekly variant: the initial state draws the history and the
\* pod bounds; the two schedules are generated and then, one or the other,
\* translated to cron jobs.
InitWeekly ==
    /\ Constructed(FALSE, TRUE, DefaultConfig)
    /\ NoAnalyzeArguments
    /\ metrics_history \in WeeklyHistories
    /\ \E b \in PodBounds : min_pods = b[1] /\ max_pods = b[2]
    /\ patterns = NoPatterns
    /\ schedule = NoSchedule
    /\ schedules = NoSchedules
    /\ cron_jobs = <<>>
    /\ NoThreads
GenerateWeeklyFromHistory ==
    /\ op = "init"
    /\ GenerateWeeklySchedule(metrics_history, min_pods, max_pods)
TranslateWeekly ==
    /\ op = "generate_weekly_schedule"
    /\ \E key \in DOMAIN schedules : ToCronJobsOf(key)
NextWeekly == GenerateWeeklyFromHistory \/ TranslateWeekly
SpecWeekly == InitWeekly /\ [][NextWeekly]_vars

-----------------------------------------------------------------------------
(* Two _apply_decision_to_hpa calls on one HPAConfiguration, each on its own
   thread.  A thread gives up the interpreter between any two statements, so
   every read and every write of an attribute of the shared hpa_config is a
   step of its own; the statements between them only touch locals. *)

Threads == {1, 2}
Other(t) == 3 - t

\* a call that has not started; serial is TRUE as long as the call has made
\* no step while the other call was between its first and its last step
Call(d) ==
    [pc |-> "start", decision |-> d, original_min |-> 0, original_max |-> 0,
     new_min |-> 0, new_max |-> 0, serial |-> TRUE]

\* the other call is not in the middle of its run
RunsAlone(t) == threads[Other(t)].pc \in {"start", "done"}

\* the thread moves to pc `next` with the locals `locals` changed
Step(t, next, locals) ==
    threads' = [threads EXCEPT ![t] =
                   [locals EXCEPT !.pc = next, !.serial = @ /\ RunsAlone(t)]]

\* line 195: original_min = hpa_config.min_replicas
ReadOriginalMin(t) ==
    /\ threads[t].pc = "start"
    /\ Step(t, "line_196",
            [threads[t] EXCEPT !.original_min = hpa_config.min_replicas])
    /\ UNCHANGED <<client, engineVars, decision, raised, op, managerVars, scheduleVars>>

\* line 196: original_max = hpa_config.max_replicas, then the branch on the
\* action; the scale-down branch computes both bounds from the count alone
ReadOriginalMax(t) ==
    LET d == threads[t].decision
        r == d.recommended_pod_count
        read == [threads[t] EXCEPT !.original_max = hpa_config.max_replicas]
    IN /\ threads[t].pc = "line_196"
       /\ IF d.action = StrV("scale_up_horizontal") /\ Truthy(r)
          THEN Step(t, "line_202", read)
          ELSE IF d.action = StrV("scale_down_horizontal") /\ Truthy(r)
          THEN Step(t, "write_min",
                    [read EXCEPT !.new_max = ScaleDownNewMax(r[2]),
                                 !.new_min = ScaleDownNewMin(r[2])])
          ELSE Step(t, "line_235", read)
       /\ UNCHANGED <<client, engineVars, decision, raised, op, managerVars, scheduleVars>>

\* line 202: new_max reads hpa_config.max_replicas
ComputeNewMax(t) ==
    /\ threads[t].pc = "line_202"
    /\ Step(t, "line_203",
            [threads[t] EXCEPT !.new_max =
                ScaleUpNewMax(threads[t].decision.recommended_pod_count[2], hpa_config)])
    /\ UNCHANGED <<client, engineVars, decision, raised, op, managerVars, scheduleVars>>

\* line 203: new_min reads hpa_config.min_replicas
ComputeNewMin(t) ==
    /\ threads[t].pc = "line_203"
    /\ Step(t, "write_min",
            [threads[t] EXCEPT !.new_min =
                ScaleUpNewMin(threads[t].decision.recommended_pod_count[2], hpa_config)])
    /\ UNCHANGED <<client, engineVars, decision, raised, op, managerVars, scheduleVars>>

\* lines 208 and 220: hpa_config.min_replicas = new_min
WriteMin(t) ==
    /\ threads[t].pc = "write_min"
    /\ hpa_config' = [hpa_config EXCEPT !.min_replicas = threads[t].new_min]
    /\ Step(t, "write_max", threads[t])
    /\ UNCHANGED <<client, engineVars, decision, raised, op, dry_run,
                   applied_changes, original, result, cluster_applies, scheduleVars>>

\* lines 209 and 221: hpa_config.max_replicas = new_max
WriteMax(t) ==
    /\ threads[t].pc = "write_max"
    /\ hpa_config' = [hpa_config EXCEPT !.max_replicas = threads[t].new_max]
    /\ Step(t, "line_235", threads[t])
    /\ UNCHANGED <<client, engineVars, decision, raised, op, dry_run,
                   applied_changes, original, result, cluster_applies, scheduleVars>>

\* the changes dictionary of a call, from its locals
CallChanges(call) ==
    IF call.decision.action \in {StrV("scale_up_horizontal"), StrV("scale_down_horizontal")}
       /\ Truthy(call.decision.recommended_pod_count)
    THEN {Change("min_replicas", call.original_min, call.new_min),
          Change("max_replicas", call.original_max, call.new_max)}
    ELSE {}

\* lines 235-243: the cluster apply or the dry-run note, the append to the
\* audit list and the return
Finish(t, outcome) ==
    LET call == threads[t]
        branch == ApplyBranch(hpa_config, call.decision)
        changes == CallChanges(call)
        applies == ShouldApply(changes, dry_run)
        success == ApplyHpaToCluster(outcome)
        returned ==
            [decision |-> call.decision,
             changes |-> changes,
             applied |-> IF applies THEN AppliedFlag(success) ELSE FALSE,
             dry_run |-> dry_run,
             note |-> IF ~applies /\ changes # {}
                      THEN StrV("Dry-run mode: Changes not applied to cluster")
                      ELSE branch.note,
             recommendation |-> branch.recommendation]
    IN /\ call.pc = "line_235"
       /\ Step(t, "done", call)
       /\ op' = "apply_decision_to_hpa"
       /\ decision' = call.decision
       /\ raised' = "none"
       /\ original' = [hpa_config EXCEPT !.min_replicas = call.original_min,
                                         !.max_replicas = call.original_max]
       /\ result' = returned
       /\ cluster_applies' = IF applies THEN <<success>> ELSE <<>>
       /\ applied_changes' = AuditAppend(applied_changes, returned)
       /\ UNCHANGED <<client, engineVars, hpa_config, dry_run, scheduleVars>>

\* pod counts of the snapshots whose rule-based decisions the two calls carry
ConcurrentPodCounts == {3, 8}
ScaleUpDecisions ==
    {RuleBasedDecision(ScalingMetrics(88, 85, 620, p)) : p \in ConcurrentPodCounts}
ScaleDownDecisions ==
    {RuleBasedDecision(ScalingMetrics(12, 22, 45, p)) : p \in ConcurrentPodCounts}

\* Thread 1 reconciles a scale_up_horizontal decision and thread 2 a
\* scale_down_horizontal decision against the same config.
InitConcurrent ==
    /\ \E dry \in BOOLEAN, config \in ValidConfigs : Constructed(FALSE, dry, config)
    /\ NoAnalyzeArguments
    /\ NoScheduleArguments
    /\ \E up \in ScaleUpDecisions, down \in ScaleDownDecisions :
          threads = <<Call(up), Call(down)>>
NextConcurrent ==
    \E t \in Threads :
        \/ ReadOriginalMin(t)
        \/ ReadOriginalMax(t)
        \/ ComputeNewMax(t)
        \/ ComputeNewMin(t)
        \/ WriteMin(t)
        \/ WriteMax(t)
        \/ \E outcome \in ApplyOutcomes : Finish(t, outcome)
SpecConcurrent == InitConcurrent /\ [][NextConcurrent]_vars

-----------------------------------------------------------------------------
(* Claims about the decision engine *)

Analyzed == op = "analyze_metrics"
RuleBasedCall == Analyzed /\ ~client
Cpu == current_metrics.cpu_utilization
Memory == current_metrics.memory_utilization
Pods == current_metrics.current_pod_count

\* the fields of a decision the claims compare
Decides(d, action, pods, memInc, confidence, urgency) ==
    /\ d # NoDecision
    /\ d.action = StrV(action)
    /\ d.recommended_pod_count = pods
    /\ d.recommended_memory_increase = memInc
    /\ d.recommended_cpu_increase = None
    /\ d.confidence = FloatV(confidence)
    /\ d.urgency = StrV(urgency)

\* C2: with memory <= 90 and (cpu > 80 or memory > 85), analyze_metrics without
\* a backend returns scale_up_horizontal with recommended_pod_count =
\* ceil(current_pod_count * 1.5), confidence 0.80, urgency high.
C2_ScaleUpHorizontalCeil ==
    (RuleBasedCall /\ Memory <= 90 /\ (Cpu > 80 \/ Memory > 85))
        => /\ raised = "none"
           /\ Decides(decision, "scale_up_horizontal", IntV((3 * Pods + 1) \div 2),
                      None, 80, "high")

\* C3: with memory > 90, whatever the cpu and the pod count, the rule-based
\* decision is scale_up_vertical with recommended_memory_increase "50%",
\* confidence 0.85, urgency high and no recommended_pod_count.
C3_MemoryRuleFirst ==
    (RuleBasedCall /\ Memory > 90)
        => /\ raised = "none"
           /\ Decides(decision, "scale_up_vertical", None, StrV("50%"), 85, "high")

C3_Witness ==
    /\ RuleBasedCall /\ Memory > 90 /\ Cpu > 80 /\ Pods > 0
    /\ decision.action = StrV("scale_up_vertical")

\* C4: with cpu < 20, memory < 30 and more than 2 pods, the rule-based decision
\* is scale_down_horizontal with recommended_pod_count =
\* max(2, floor(current_pod_count * 0.7)), confidence 0.75, urgency low.
C4_ScaleDownHorizontalFloor ==
    (RuleBasedCall /\ Cpu < 20 /\ Memory < 30 /\ Pods > 2)
        => /\ raised = "none"
           /\ Decides(decision, "scale_down_horizontal",
                      IntV(Max(2, (7 * Pods) \div 10)), None, 75, "low")

\* the four rules of the rule-based strategy, as conditions on the snapshot
Rule1 == Memory > 90
Rule2 == ~Rule1 /\ (Cpu > 80 \/ Memory > 85)
Rule3 == ~Rule1 /\ ~Rule2 /\ Cpu < 20 /\ Memory < 30 /\ Pods > 2
Rule4 == ~Rule1 /\ ~Rule2 /\ ~Rule3

\* C5: a snapshot that matches none of the three scaling rules gets maintain
\* with recommended_pod_count = current_pod_count, confidence 0.90, urgency
\* normal; every snapshot gets the action of exactly one of the four rules.
C5_MaintainOtherwise ==
    RuleBasedCall =>
        /\ (Cpu <= 80 /\ Memory <= 85 /\ ~(Cpu < 20 /\ Memory < 30 /\ Pods > 2))
              => Decides(decision, "maintain", IntV(Pods), None, 90, "normal")
        /\ decision # NoDecision
        /\ (decision.action = StrV("scale_up_vertical")) <=> Rule1
        /\ (decision.action = StrV("scale_up_horizontal")) <=> Rule2
        /\ (decision.action = StrV("scale_down_horizontal")) <=> Rule3
        /\ (decision.action = StrV("maintain")) <=> Rule4

C5_Witness ==
    /\ RuleBasedCall /\ Cpu < 20 /\ Memory < 30 /\ Pods = 2
    /\ decision.action = StrV("maintain")
    /\ decision.recommended_pod_count = IntV(2)

\* the decision the engine returns for the same snapshot when no backend is
\* configured
RuleBasedFor(metrics) ==
    AnalyzeMetricsOutcome(FALSE, metrics, NoHistory, NotCalled).decision

BackendFailed == response.kind \in {"api_error", "timeout", "not_json", "json_non_object"}

\* C6: when the backend call fails, times out or returns text that is not valid
\* JSON, analyze_metrics returns, within the same call, a decision with the
\* action, recommended_pod_count, recommended increases, confidence and urgency
\* of the rule-based decision for that snapshot.
C6_FallbackEqualsRuleBased ==
    (Analyzed /\ client /\ BackendFailed)
        => /\ raised = "none"
           /\ backend_calls = 1
           /\ decision # NoDecision
           /\ LET rb == RuleBasedFor(current_metrics)
              IN /\ decision.action = rb.action
                 /\ decision.recommended_pod_count = rb.recommended_pod_count
                 /\ decision.recommended_memory_increase = rb.recommended_memory_increase
                 /\ decision.recommended_cpu_increase = rb.recommended_cpu_increase
                 /\ decision.confidence = rb.confidence
                 /\ decision.urgency = rb.urgency

C6_Witness ==
    /\ Analyzed /\ client /\ response.kind = "not_json"
    /\ historical_metrics.given /\ Len(historical_metrics.points) = 2
    /\ decision.action = StrV("scale_down_horizontal")

\* C7: analyze_metrics never raises: for every snapshot, history and backend
\* behaviour the call returns a ScalingDecision.
C7_AnalyzeNeverRaises ==
    Analyzed => (raised = "none" /\ decision # NoDecision)

-----------------------------------------------------------------------------
(* Claims about the reconciler *)

\* _apply_decision_to_hpa ran to its end in the last call
Reconciled ==
    /\ op \in {"apply_decision_to_hpa", "update_hpa_from_metrics"}
    /\ raised = "none"

\* the invariants the data model states for an HPA configuration
ConfigValid(c) ==
    /\ 1 <= c.min_replicas
    /\ c.min_replicas <= c.max_replicas
    /\ 1 <= c.target_cpu_utilization /\ c.target_cpu_utilization <= 100
    /\ 1 <= c.target_memory_utilization /\ c.target_memory_utilization <= 100

\* C1: from any constructed HPAConfiguration, after every reconcile call driven
\* by a snapshot through the rule-based engine, 1 <= min_replicas <=
\* max_replicas and both targets lie in 1..100.
C1_RuleBasedKeepsConfigValid == ConfigValid(hpa_config)

C1_Witness ==
    /\ Reconciled /\ ~client
    /\ Len(applied_changes) = 2
    /\ applied_changes[1].decision.action = StrV("scale_up_horizontal")
    /\ applied_changes[1].changes # {}
    /\ applied_changes[2].decision.action = StrV("scale_down_horizontal")
    /\ hpa_config.max_replicas < original.max_replicas

\* C8: a reconcile that would leave the config violating its invariants fails
\* with a ConfigurationError and leaves min_replicas and max_replicas as they
\* were; so a call either leaves a valid config or fails without a change.
C8_InvalidReconcileFails ==
    (op \in {"apply_decision_to_hpa", "update_hpa_from_metrics"} /\ decision # NoDecision)
        => \/ (raised = "none" /\ ConfigValid(hpa_config))
           \/ /\ raised = "ConfigurationError"
              /\ hpa_config.min_replicas = original.min_replicas
              /\ hpa_config.max_replicas = original.max_replicas

AdvisoryActions ==
    {StrV("maintain"), StrV("scale_up_vertical"), StrV("scale_down_vertical")}

\* C9: reconciling a maintain, scale_up_vertical or scale_down_vertical decision
\* leaves every config field unchanged, returns empty changes with applied =
\* false, never invokes the cluster applier and carries an advisory note (and,
\* for the vertical actions, the recommended memory / cpu increase).
C9_AdvisoryDecisionsChangeNothing ==
    (Reconciled /\ decision.action \in AdvisoryActions)
        => /\ hpa_config = original
           /\ result.changes = {}
           /\ result.applied = FALSE
           /\ cluster_applies = <<>>
           /\ result.note # None
           /\ result.note # StrV("Dry-run mode: Changes not applied to cluster")
           /\ (decision.action # StrV("maintain"))
                 => result.recommendation =
                        [present |-> TRUE,
                         memory_increase |-> decision.recommended_memory_increase,
                         cpu_increase |-> decision.recommended_cpu_increase]

C9_Witness ==
    /\ Reconciled /\ ~dry_run
    /\ decision.action = StrV("scale_up_vertical")
    /\ result.recommendation.memory_increase = StrV("50%")
    /\ hpa_config = original

\* C10: a reconcile call invokes the cluster applier exactly once if and only if
\* dry-run is off and the changes are non-empty, and applied is then what the
\* applier returned; otherwise the applier is not invoked and applied is false.
C10_ApplierInvokedOnlyForRealChanges ==
    Reconciled
        => /\ Len(cluster_applies) <= 1
           /\ (Len(cluster_applies) = 1) <=> (~dry_run /\ result.changes # {})
           /\ (Len(cluster_applies) = 1) => (result.applied = cluster_applies[1])
           /\ (Len(cluster_applies) = 0) => (result.applied = FALSE)

C10_Witness ==
    /\ Reconciled /\ ~dry_run
    /\ result.changes # {}
    /\ cluster_applies = <<FALSE>>
    /\ result.applied = FALSE

\* C11: when the cluster-apply call fails, the reconcile call does not raise
\* and invokes the applier once only; its result has applied = false and
\* reports the failure in its note.
C11_ApplyFailureInNote ==
    (Reconciled /\ Len(cluster_applies) > 0 /\ cluster_applies[1] = FALSE)
        => /\ Len(cluster_applies) = 1
           /\ result.applied = FALSE
           /\ result.note # None

-----------------------------------------------------------------------------
(* Claims about the schedule generator *)

Entries == schedule.schedule_entries

\* C12: on an empty history analyze_patterns returns a dictionary that holds
\* only an error, generate_schedule returns a schedule with no entries whose
\* cron translation is the empty list, and none of the calls raises.
C12_EmptyHistoryGivesEmptyResults ==
    metrics_history = <<>> =>
        /\ (op \in {"analyze_patterns", "generate_schedule", "to_cron_jobs"})
              => raised = "none"
        /\ (op = "analyze_patterns")
              => (patterns.keys = {"error"} /\ patterns.error # "")
        /\ (op \in {"generate_schedule", "to_cron_jobs"})
              => (schedule # NoSchedule /\ Entries = <<>>)
        /\ (op = "to_cron_jobs") => cron_jobs = <<>>

C12_Witness ==
    /\ op = "to_cron_jobs"
    /\ metrics_history = <<>>
    /\ schedule.name = "error-schedule"
    /\ patterns.keys = {"error"}
    /\ cron_jobs = <<>>

\* "HH:MM" read back from a cron expression: its second field, a colon, its
\* first field
TimeOfCron(expr) ==
    LET fields == Split(expr, " ") IN fields[2] \o <<":">> \o fields[1]

\* C13: for a schedule produced by generate_schedule, to_cron_jobs yields one
\* job per entry, in the entries' order, with the expression "MM HH * * *"
\* (no entry carries a day_of_week), and the hour and minute fields of the
\* expression give back the entry's "HH:MM".
C13_CronRoundTrip ==
    (op = "to_cron_jobs")
        => /\ raised = "none"
           /\ Len(cron_jobs) = Len(Entries)
           /\ \A i \in 1 .. Len(Entries) :
                 LET entry == Entries[i]
                     job == cron_jobs[i]
                     fields == Split(job.schedule, " ")
                 IN /\ entry.day_of_week = Missing
                    /\ Len(entry.time) = 5 /\ entry.time[3] = ":"
                    /\ Len(fields) = 5
                    /\ Len(fields[1]) = 2 /\ Len(fields[2]) = 2
                    /\ fields[1] = SubSeq(entry.time, 4, 5)
                    /\ fields[2] = SubSeq(entry.time, 1, 2)
                    /\ fields[3] = <<"*">> /\ fields[4] = <<"*">> /\ fields[5] = <<"*">>
                    /\ TimeOfCron(job.schedule) = entry.time
                    /\ job.target_pods = entry.target_pods
                    /\ job.reason = entry.reason

C13_Witness ==
    /\ op = "to_cron_jobs"
    /\ Len(Entries) = 4
    /\ Entries[1].time = <<"2", "3", ":", "3", "0">>
    /\ cron_jobs[1].schedule = <<"3", "0", " ", "2", "3", " ", "*", " ", "*", " ", "*">>
    /\ Entries[2].time = <<"0", "0", ":", "0", "0">>
    /\ Entries[4].time = <<"0", "9", ":", "0", "0">>
    /\ Entries[4].confidence = 95
    /\ cron_jobs[4].schedule = <<"0", "0", " ", "0", "9", " ", "*", " ", "*", " ", "*">>

-----------------------------------------------------------------------------
(* Claims about the backend's answer *)

AllowedActions ==
    {StrV("maintain"), StrV("scale_up_horizontal"), StrV("scale_down_horizontal"),
     StrV("scale_up_vertical"), StrV("scale_down_vertical")}
AllowedUrgencies == {StrV("low"), StrV("normal"), StrV("high"), StrV("critical")}

\* a confidence that is a number in [0, 1] (hundredths in the model)
ConfidenceInRange(v) == IsNumber(v) /\ 0 <= v[2] /\ v[2] <= 100

\* the JSON object violates the schema in one of the ways the claim lists
SchemaInvalid(fields) ==
    \/ (fields.action # Missing /\ fields.action \notin AllowedActions)
    \/ (fields.confidence # Missing /\ ~ConfidenceInRange(fields.confidence))
    \/ (fields.recommended_pod_count \notin {Missing, None}
           /\ fields.recommended_pod_count[1] # "int")
    \/ (fields.urgency # Missing /\ fields.urgency \notin AllowedUrgencies)

\* C14: a JSON object with schema-invalid fields makes analyze_metrics fall back
\* to the rule-based decision, so every decision it returns has one of the five
\* actions, one of the four urgencies and a confidence in [0, 1].
C14_SchemaInvalidFallsBack ==
    Analyzed =>
        /\ (response.kind = "json_object" /\ SchemaInvalid(response.fields))
              => /\ raised = "none"
                 /\ decision # NoDecision
                 /\ decision.action = RuleBasedFor(current_metrics).action
        /\ (decision # NoDecision)
              => /\ decision.action \in AllowedActions
                 /\ decision.urgency \in AllowedUrgencies
                 /\ ConfidenceInRange(decision.confidence)

\* C15: when analyze_metrics falls back from the backend to the rules, the
\* reasoning of the returned decision records why the backend strategy failed:
\* it is not just the reasoning the rules give when no backend is configured.
C15_FallbackReasoningRecordsFailure ==
    (Analyzed /\ client /\ BackendFailed /\ decision # NoDecision)
        => decision.reasoning # RuleBasedFor(current_metrics).reasoning

-----------------------------------------------------------------------------
(* Claims about the horizontal branches of the reconciler *)

RecommendedCount == decision.recommended_pod_count

\* the changes dictionary that records old and new of both bounds
BothBoundsRecorded ==
    result.changes =
        {Change("min_replicas", original.min_replicas, hpa_config.min_replicas),
         Change("max_replicas", original.max_replicas, hpa_config.max_replicas)}

TargetsKept ==
    /\ hpa_config.target_cpu_utilization = original.target_cpu_utilization
    /\ hpa_config.target_memory_utilization = original.target_memory_utilization

\* C16: reconciling scale_up_horizontal with a non-zero recommended count r
\* sets max_replicas = max(r + 5, max) and min_replicas = max(min, floor(r / 2))
\* and records old and new of both bounds; with no count (None or 0) the config
\* is not mutated and changes is empty.
C16_ScaleUpHorizontalBounds ==
    (Reconciled /\ decision.action = StrV("scale_up_horizontal"))
        => IF RecommendedCount # None /\ RecommendedCount[2] # 0
           THEN /\ hpa_config.max_replicas =
                       Max(RecommendedCount[2] + 5, original.max_replicas)
                /\ hpa_config.min_replicas =
                       Max(original.min_replicas, RecommendedCount[2] \div 2)
                /\ TargetsKept
                /\ BothBoundsRecorded
           ELSE /\ hpa_config = original
                /\ result.changes = {}

C16_Witness ==
    /\ Reconciled
    /\ decision.action = StrV("scale_up_horizontal")
    /\ RecommendedCount = IntV(4)
    /\ original.min_replicas = 1 /\ original.max_replicas = 3
    /\ hpa_config.min_replicas = 2 /\ hpa_config.max_replicas = 9
    /\ Cardinality(result.changes) = 2

\* C17: reconciling scale_down_horizontal with a recommended count r sets
\* max_replicas = r + 3 and min_replicas = max(2, r - 1), whatever the bounds
\* were before, and records old and new of both bounds.
C17_ScaleDownHorizontalBounds ==
    (Reconciled /\ decision.action = StrV("scale_down_horizontal")
        /\ Truthy(RecommendedCount))
        => /\ hpa_config.max_replicas = RecommendedCount[2] + 3
           /\ hpa_config.min_replicas = Max(2, RecommendedCount[2] - 1)
           /\ TargetsKept
           /\ BothBoundsRecorded

C17_Witness ==
    /\ Reconciled
    /\ decision.action = StrV("scale_down_horizontal")
    /\ RecommendedCount = IntV(4)
    /\ original.min_replicas = 1 /\ original.max_replicas = 1
    /\ hpa_config.min_replicas = 3 /\ hpa_config.max_replicas = 7
    /\ Cardinality(result.changes) = 2

-----------------------------------------------------------------------------
(* Claims about the audit list *)

\* C18: every reconcile call that completes appends exactly one record, the
\* result it returns, to the end of applied_changes and leaves the earlier
\* records as they are; nothing else changes the list, so the list only grows,
\* is as long as the number of completed calls and is in call order.
C18_OneAuditRecordPerReconcile ==
    [][IF op' \in {"apply_decision_to_hpa", "update_hpa_from_metrics"}
          /\ raised' = "none"
       THEN /\ Len(applied_changes') = Len(applied_changes) + 1
            /\ SubSeq(applied_changes', 1, Len(applied_changes)) = applied_changes
            /\ applied_changes'[Len(applied_changes')] = result'
       ELSE applied_changes' = applied_changes]_vars

C18_Witness ==
    /\ Reconciled /\ ~dry_run
    /\ Len(applied_changes) = 2
    /\ applied_changes[1].decision.action = StrV("scale_down_horizontal")
    /\ applied_changes[1].applied = TRUE
    /\ applied_changes[2].decision.action = StrV("maintain")
    /\ applied_changes[2].applied = FALSE
    /\ applied_changes[2] = result

-----------------------------------------------------------------------------
(* Claims about concurrent reconcile calls *)

BothCallsDone == threads # <<>> /\ \A t \in Threads : threads[t].pc = "done"

\* one call made all its steps before the other made its first
Serialized == \A t \in Threads : threads[t].serial

\* C19: concurrent reconcile calls on one HPAConfiguration are unsafe.  Every
\* serialized order of a scale_up_horizontal and a scale_down_horizontal call
\* leaves min_replicas <= max_replicas, with the bounds the last call recorded
\* as new; an interleaving of their separate writes of min_replicas and
\* max_replicas can leave min_replicas > max_replicas (the witness).
C19_SerializedCallsKeepOrder ==
    (BothCallsDone /\ Serialized)
        => /\ hpa_config.min_replicas <= hpa_config.max_replicas
           /\ Change("min_replicas", original.min_replicas, hpa_config.min_replicas)
                 \in result.changes
           /\ Change("max_replicas", original.max_replicas, hpa_config.max_replicas)
                 \in result.changes

C19_Witness ==
    /\ BothCallsDone /\ ~Serialized
    /\ hpa_config.min_replicas > hpa_config.max_replicas
    /\ Len(applied_changes) = 2
    /\ \A i \in 1 .. 2 :
          \E c \in applied_changes[i].changes :
             c.new # hpa_config[c.field]

-----------------------------------------------------------------------------
(* Claims about the outbound call *)

\* C20: an analyze_metrics invocation makes exactly one outbound backend call
\* when a backend is configured, also when that call fails and the rules take
\* over, and none when no backend is configured.
C20_OneBackendCallPerAnalyze ==
    Analyzed => backend_calls = (IF client THEN 1 ELSE 0)

-----------------------------------------------------------------------------
(* Claims about the entries of a generated schedule *)

Generated == op = "generate_schedule" /\ metrics_history # <<>>

\* the hours of day that have data
HoursWithData == {metrics_history[i].timestamp.hour : i \in 1 .. Len(metrics_history)}

\* the averages analyze_patterns holds for hour h
AveragesOf(h) ==
    LET k == CHOOSE i \in 1 .. Len(patterns.hourly_patterns) :
                 patterns.hourly_patterns[i].hour = h
    IN patterns.hourly_patterns[k]

\* positions of the entries of the three kinds, told apart by their reason
StandardEntries(h) ==
    {i \in 1 .. Len(Entries) :
        Entries[i].reason = Reason("Scheduled scaling for hour {hour}", <<h>>)}
PreScaleEntries(h) ==
    {i \in 1 .. Len(Entries) :
        Entries[i].reason = Reason("Pre-scale for peak hour {hour}:00", <<h>>)}
LowTrafficEntries ==
    {i \in 1 .. Len(Entries) :
        Entries[i].reason = Reason("Scale down during low traffic", <<>>)}

\* round(n / d) for n >= 0, d > 0, halves to the even neighbour
RoundRat(n, d) ==
    LET q == n \div d
        twice == 2 * (n % d)
    IN IF twice < d THEN q
       ELSE IF twice > d THEN q + 1
       ELSE IF q % 2 = 0 THEN q ELSE q + 1

\* round(mean_pods * max(1, max(mean_cpu / 70, mean_memory / 80))), clamped
RoundedTarget(h) ==
    LET m == AveragesOf(h)
        factor == RatMax(Rat(1, 1), RatMax(RatTimes(m.cpu, 1, 70),
                                           RatTimes(m.memory, 1, 80)))
    IN Max(min_pods, Min(max_pods,
           RoundRat(m.avg_pods[1] * factor[1], m.avg_pods[2] * factor[2])))

\* C21: for every hour with data generate_schedule emits exactly one standard
\* entry, at "HH:00", with confidence 0.85 and target_pods = the rounded
\* product of the mean pod count and the scaling factor, clamped to
\* [min_pods, max_pods]; so with min_pods <= max_pods every entry's target_pods
\* lies in [min_pods, max_pods].
C21_StandardEntryRounded ==
    Generated =>
        /\ \A h \in HoursWithData :
              /\ Cardinality(StandardEntries(h)) = 1
              /\ \A i \in StandardEntries(h) :
                    /\ Entries[i].time = TimeText(h, 0)
                    /\ Entries[i].confidence = 85
                    /\ Entries[i].target_pods = RoundedTarget(h)
        /\ (min_pods <= max_pods)
              => \A i \in 1 .. Len(Entries) :
                    min_pods <= Entries[i].target_pods
                       /\ Entries[i].target_pods <= max_pods

\* hour h is in the peak_hours list of the analysis
FlaggedPeak(h) == \E i \in 1 .. Len(patterns.peak_hours) : patterns.peak_hours[i].hour = h

\* hour h is in the low_traffic_hours list of the analysis
FlaggedLow(h) ==
    \E i \in 1 .. Len(patterns.low_traffic_hours) : patterns.low_traffic_hours[i].hour = h

\* "HH:30" of the hour before h, 23 before 0
HalfPastBefore(h) ==
    (IF h = 0 THEN <<"2", "3">> ELSE Format02d(h - 1)) \o <<":", "3", "0">>

\* C22: for every hour flagged peak, and for no other hour, generate_schedule
\* emits, besides the standard entry, exactly one pre-scale entry, at half past
\* the hour before ("23:30" for hour 0), with the target_pods of the hour's
\* standard entry and confidence 0.90.
C22_PreScaleEntryPerPeakHour ==
    Generated =>
        /\ \A h \in 0 .. 23 :
              /\ Cardinality(PreScaleEntries(h)) =
                     (IF h \in HoursWithData /\ FlaggedPeak(h) THEN 1 ELSE 0)
              /\ \A i \in PreScaleEntries(h) :
                    /\ Entries[i].time = HalfPastBefore(h)
                    /\ Entries[i].confidence = 90
                    /\ Cardinality(StandardEntries(h)) = 1
                    /\ \A j \in StandardEntries(h) :
                          Entries[i].target_pods = Entries[j].target_pods
        /\ \A i \in 1 .. Len(Entries) :
              Entries[i].confidence = 90 => \E h \in HoursWithData : i \in PreScaleEntries(h)

C22_Witness ==
    /\ Generated
    /\ FlaggedPeak(0) /\ ~FlaggedPeak(9)
    /\ Len(Entries) >= 3
    /\ Entries[1].time = <<"2", "3", ":", "3", "0">>
    /\ Entries[1].confidence = 90
    /\ Entries[2].time = <<"0", "0", ":", "0", "0">>
    /\ Entries[2].confidence = 85
    /\ Entries[1].target_pods = 5 /\ Entries[2].target_pods = 5
    /\ PreScaleEntries(9) = {}

\* C23: for every hour flagged low-traffic generate_schedule appends, after
\* all the per-hour entries, an entry at "HH:00" with target_pods = min_pods
\* and confidence 0.95; the hour's standard entry stays, so the entry list holds
\* two entries with that time, the standard one first.
C23_LowTrafficOverrideAppended ==
    Generated =>
        LET low == patterns.low_traffic_hours
            first == Len(Entries) - Len(low)
        IN /\ first >= 0
           /\ LowTrafficEntries = (first + 1) .. Len(Entries)
           /\ \A i \in 1 .. Len(Entries) :
                 Entries[i].confidence = 95 <=> i \in LowTrafficEntries
           /\ \A k \in 1 .. Len(low) :
                 LET h == low[k].hour
                     override == Entries[first + k]
                 IN /\ override.time = Format02d(h) \o <<":", "0", "0">>
                    /\ override.target_pods = min_pods
                    /\ Cardinality(StandardEntries(h)) = 1
                    /\ \A i \in StandardEntries(h) :
                          /\ i <= first
                          /\ Entries[i].time = override.time
                          /\ Entries[i].confidence = 85

C23_Witness ==
    /\ Generated
    /\ min_pods = 2
    /\ Len(patterns.low_traffic_hours) = 1
    /\ patterns.low_traffic_hours[1].hour = 9
    /\ Len(Entries) = 4
    /\ Entries[3].time = <<"0", "9", ":", "0", "0">>
    /\ Entries[3].confidence = 85
    /\ Entries[3].target_pods = 6
    /\ Entries[4].time = <<"0", "9", ":", "0", "0">>
    /\ Entries[4].confidence = 95
    /\ Entries[4].target_pods = 2

-----------------------------------------------------------------------------
(* Claims about the pattern analysis *)

\* an analysis of a history that is not empty has been made
PatternsFound ==
    /\ op \in {"analyze_patterns", "generate_schedule"}
    /\ metrics_history # <<>>

\* the mean of a field over the samples of hour h, from the history itself
HourMean(h, field) ==
    LET of_hour == SelectSeq(metrics_history, LAMBDA s : s.timestamp.hour = h)
    IN Mean([i \in 1 .. Len(of_hour) |-> Rat(of_hour[i].metrics[field], 1)])

RECURSIVE SumOfHourMeans(_, _)
SumOfHourMeans(hours, field) ==
    IF hours = {} THEN Rat(0, 1)
    ELSE LET h == CHOOSE x \in hours : TRUE
         IN RatAdd(HourMean(h, field), SumOfHourMeans(hours \ {h}, field))

\* the mean, over the hours with data, of the hourly means of a field
MeanOfHourMeans(field) ==
    RatTimes(SumOfHourMeans(HoursWithData, field), 1, Cardinality(HoursWithData))

\* a > factor * b for fractions a, b and factor = n / d
Exceeds(a, n, d, b) == RatLess(RatTimes(b, n, d), a)

PeakHourSet ==
    {h \in HoursWithData :
        \/ Exceeds(HourMean(h, "cpu_utilization"), 3, 2, MeanOfHourMeans("cpu_utilization"))
        \/ Exceeds(HourMean(h, "request_rate"), 3, 2, MeanOfHourMeans("request_rate"))}

LowHourSet ==
    {h \in HoursWithData :
        /\ RatLess(HourMean(h, "cpu_utilization"),
                   RatTimes(MeanOfHourMeans("cpu_utilization"), 1, 2))
        /\ RatLess(HourMean(h, "request_rate"),
                   RatTimes(MeanOfHourMeans("request_rate"), 1, 2))}

\* C24: peak_hours holds exactly the hours whose mean cpu is above 1.5 times
\* the mean of the hourly mean cpu values or whose mean request rate is above
\* 1.5 times the mean of the hourly mean request rates, each once, in
\* descending order of mean cpu.
C24_PeakHoursRule ==
    PatternsFound =>
        LET peaks == patterns.peak_hours
        IN /\ {peaks[i].hour : i \in 1 .. Len(peaks)} = PeakHourSet
           /\ Len(peaks) = Cardinality(PeakHourSet)
           /\ \A i \in 1 .. Len(peaks) :
                 /\ peaks[i].cpu = HourMean(peaks[i].hour, "cpu_utilization")
                 /\ peaks[i].rps = HourMean(peaks[i].hour, "request_rate")
           /\ \A i, j \in 1 .. Len(peaks) :
                 i < j => ~RatLess(peaks[i].cpu, peaks[j].cpu)

C24_Witness ==
    /\ PatternsFound
    /\ Len(metrics_history) = 3
    /\ metrics_history[1].timestamp.hour = 0
    /\ Len(patterns.peak_hours) = 2
    /\ patterns.peak_hours[1].hour = 23
    /\ patterns.peak_hours[2].hour = 0
    /\ RatLess(patterns.peak_hours[2].cpu, patterns.peak_hours[1].cpu)
    /\ 9 \in HoursWithData

-----------------------------------------------------------------------------
(* Claims about what a reconcile call leaves in the configuration *)

\* C26: reconciling scale_down_horizontal never raises a replica bound:
\* max_replicas and min_replicas after the call are at most what they were
\* before it.
C26_ScaleDownNeverRaisesBound ==
    (Reconciled /\ decision.action = StrV("scale_down_horizontal"))
        => /\ hpa_config.max_replicas <= original.max_replicas
           /\ hpa_config.min_replicas <= original.min_replicas

\* the bounds that the decision and the configuration before the call
\* determine, whatever dry_run and the outcome of the cluster apply are
DeterminedBounds ==
    LET r == RecommendedCount
        counted == r # None /\ r[2] # 0
    IN IF decision.action = StrV("scale_up_horizontal") /\ counted
       THEN [min |-> Max(original.min_replicas, r[2] \div 2),
             max |-> Max(r[2] + 5, original.max_replicas)]
       ELSE IF decision.action = StrV("scale_down_horizontal") /\ counted
       THEN [min |-> Max(2, r[2] - 1), max |-> r[2] + 3]
       ELSE [min |-> original.min_replicas, max |-> original.max_replicas]

\* C27: the configuration a reconcile call leaves depends on the configuration
\* before the call and on the decision only: a dry-run call leaves the bounds
\* that a real call leaves, and a failed cluster apply takes nothing back.
C27_ConfigDependsOnDecisionOnly ==
    Reconciled
        => /\ hpa_config.min_replicas = DeterminedBounds.min
           /\ hpa_config.max_replicas = DeterminedBounds.max
           /\ TargetsKept

C27_Witness ==
    /\ Reconciled
    /\ dry_run
    /\ cluster_applies = <<>>
    /\ hpa_config.min_replicas # original.min_replicas
    /\ hpa_config.max_replicas # original.max_replicas
    /\ result.applied = FALSE


\* the low-traffic overrides of hour h: their time is "HH:00"
LowTrafficEntriesOf(h) ==
    {i \in LowTrafficEntries : Entries[i].time = TimeText(h, 0)}

\* C28: with cpu and request-rate values that are not negative no hour is in
\* both peak_hours and low_traffic_hours, so no hour gets a pre-scale entry as
\* well as a low-traffic override; a history whose samples all fall in one hour
\* gives two empty lists.
C28_PeakAndLowDisjoint ==
    PatternsFound =>
        /\ \A h \in 0 .. 23 : ~(FlaggedPeak(h) /\ FlaggedLow(h))
        /\ Generated =>
              \A h \in 0 .. 23 : PreScaleEntries(h) = {} \/ LowTrafficEntriesOf(h) = {}
        /\ Cardinality(HoursWithData) = 1 =>
              /\ patterns.peak_hours = <<>>
              /\ patterns.low_traffic_hours = <<>>

C28_Witness ==
    /\ Generated
    /\ FlaggedPeak(23) /\ FlaggedPeak(0) /\ FlaggedLow(9)
    /\ PreScaleEntries(23) # {} /\ PreScaleEntries(0) # {}
    /\ LowTrafficEntriesOf(9) # {}
    /\ \A i \in 1 .. Len(metrics_history) :
          /\ metrics_history[i].metrics.cpu_utilization >= 0
          /\ metrics_history[i].metrics.request_rate >= 0

-----------------------------------------------------------------------------
(* Claims about the direction of a rule-based decision *)

\* C29: for every snapshot with current_pod_count >= 1, a rule-based
\* scale_up_horizontal decision recommends strictly more pods than
\* current_pod_count, and a rule-based scale_down_horizontal decision
\* recommends strictly fewer pods than current_pod_count and at least 2.
C29_HorizontalDirection ==
    (RuleBasedCall /\ Pods >= 1) =>
        /\ decision.action = StrV("scale_up_horizontal")
              => /\ RecommendedCount[1] = "int"
                 /\ RecommendedCount[2] > Pods
        /\ decision.action = StrV("scale_down_horizontal")
              => /\ RecommendedCount[1] = "int"
                 /\ RecommendedCount[2] < Pods
                 /\ RecommendedCount[2] >= 2

-----------------------------------------------------------------------------
(* Claims about the weekly variant *)

\* the samples of Monday (0) to Friday (4), and those of Saturday and Sunday,
\* in the order of the history
MondayToFriday ==
    SelectSeq(metrics_history, LAMBDA s : s.timestamp.weekday \in 0 .. 4)
SaturdayAndSunday ==
    SelectSeq(metrics_history, LAMBDA s : s.timestamp.weekday \in {5, 6})

\* each returned schedule has the entries generate_schedule gives for the
\* samples of its own days, and a day without samples has no schedule
WeeklyBucketsOwn ==
    /\ Len(MondayToFriday) + Len(SaturdayAndSunday) = Len(metrics_history)
    /\ ("weekday" \in DOMAIN schedules) <=> (MondayToFriday # <<>>)
    /\ ("weekend" \in DOMAIN schedules) <=> (SaturdayAndSunday # <<>>)
    /\ "weekday" \in DOMAIN schedules =>
          schedules["weekday"].schedule_entries =
              GenerateScheduleOutcome(MondayToFriday, min_pods, max_pods)
                  .schedule.schedule_entries
    /\ "weekend" \in DOMAIN schedules =>
          schedules["weekend"].schedule_entries =
              GenerateScheduleOutcome(SaturdayAndSunday, min_pods, max_pods)
                  .schedule.schedule_entries

\* the day-of-week field of every cron job is `days`
CronDaysAll(days) ==
    \A i \in 1 .. Len(cron_jobs) : Split(cron_jobs[i].schedule, " ")[5] = days

\* C30: generate_weekly_schedule puts every sample in exactly one of the
\* weekday (Monday to Friday) and weekend buckets and builds each schedule from
\* its own bucket only, and the cron jobs of the returned schedules have the
\* day field "1-5" (weekday schedule) and "0,6" (weekend schedule).
C30_WeeklySchedulesKeepTheirDays ==
    /\ op = "generate_weekly_schedule" => WeeklyBucketsOwn
    /\ (op = "to_cron_jobs" /\ schedule.name = "weekday-schedule")
          => raised = "none" /\ CronDaysAll(<<"1", "-", "5">>)
    /\ (op = "to_cron_jobs" /\ schedule.name = "weekend-schedule")
          => raised = "none" /\ CronDaysAll(<<"0", ",", "6">>)

=============================================================================
